---- MODULE Spec2Model ----
(***************************************************************************)
(* Model of the per-call media-stream relay of src/main.py                 *)
(* (handle_media_stream): the two coroutines receive_from_twilio (inbound  *)
(* pump, caller -> model) and send_to_twilio (outbound pump, model ->      *)
(* caller) run under asyncio.gather and share the closure variables        *)
(* stream_sid, latest_media_timestamp, last_assistant_item, mark_queue and *)
(* response_start_timestamp_twilio.  asyncio is cooperative: a coroutine   *)
(* runs without interruption up to its next await, so every action below   *)
(* is the code of one coroutine from one await to the next.                *)
(***************************************************************************)
EXTENDS Integers, Sequences, FiniteSets, TLC

\* ------------------------------------------------------------------ bounds
\* Messages consumed from the two legs together in one call.
MaxEvents == 5

\* Marks pending in one call of the two concurrent calls.
MaxSessMarks == 2

\* Doctors in the availability given to pick_doctor_advanced.
MaxDoctors == 2

\* Calls of TriageAgent.update in a run.
MaxUpdates == 4

\* ------------------------------------------------------------------ values
\* Python's None, and a present value, for the Optional closure variables.
None == <<>>
Some(x) == <<x>>
Val(o) == o[1]

\* streamSid values of the caller's start event.
StreamSids == {"MZ1"}

\* The caller media frames delivered in a run: the clock in milliseconds and
\* the base64 payload (forwarded verbatim, never decoded).
CallerMediaFrames ==
    {[type |-> "media", timestamp |-> 1000, payload |-> "cHE="],
     [type |-> "media", timestamp |-> 1350, payload |-> "cHI="]}

\* The model audio deltas delivered in a run.  "QQ==" and "QR==" are base64
\* texts of the byte A (the second with non-zero padding bits), "Qg==" is the
\* byte B, "QQ=" has incorrect padding; item_id <<>> is a delta event without
\* an item_id.
ModelAudioDeltas ==
    {[type |-> "delta", item_id |-> <<"a1">>, delta |-> "QR=="],
     [type |-> "delta", item_id |-> <<"a1">>, delta |-> "Qg=="],
     [type |-> "delta", item_id |-> <<"a2">>, delta |-> "Qg=="],
     [type |-> "delta", item_id |-> <<>>, delta |-> "QR=="],
     [type |-> "delta", item_id |-> <<"a1">>, delta |-> "QQ="]}

\* base64.b64decode (validate=False): the decoded bytes, or "error" where
\* binascii.Error is raised.
B64Decode(s) ==
    CASE s = "QQ==" -> "A"
      [] s = "QR==" -> "A"
      [] s = "Qg==" -> "B"
      [] OTHER      -> "error"

\* base64.b64encode(...).decode('utf-8'): the canonical text of the bytes.
B64Encode(b) ==
    CASE b = "A" -> "QQ=="
      [] b = "B" -> "Qg=="
      [] OTHER   -> ""

\* audio_payload of send_to_twilio: re-encoding of the decoded delta.
AudioPayload(delta) == B64Encode(B64Decode(delta))

\* ------------------------------------------------------------------ events
\* Messages the caller leg can deliver (websocket.iter_text()).
CallerEvents ==
    [type : {"start"}, streamSid : StreamSids]
    \cup CallerMediaFrames
    \cup [type : {"mark", "stop", "nonjson", "media_no_timestamp"}]

\* Messages the model leg can deliver (async for openai_message in openai_ws).
\* item_id = None is a delta event without an item_id; "delta_no_audio" is a
\* response.output_audio.delta event without the 'delta' key.
ModelEvents ==
    ModelAudioDeltas
    \cup [type : {"speech_started", "error", "response.done",
                  "delta_no_audio", "nonjson"}]

NoEvent == [type |-> "none"]

VARIABLES
    stream_sid,                       \* main.py:162
    latest_media_timestamp,           \* main.py:163
    last_assistant_item,              \* main.py:164
    mark_queue,                       \* main.py:165
    response_start_timestamp_twilio,  \* main.py:166
    callerOpen,      \* the caller leg's transport is connected
    modelState,      \* openai_ws.state.name: "OPEN", "CLOSING", "CLOSED"
    inPc,            \* position of receive_from_twilio
    outPc,           \* position of send_to_twilio
    handlerPc,       \* position of handle_media_stream: "gather", "returned"
    data,            \* receive_from_twilio's current message
    response,        \* send_to_twilio's current message
    toCaller,        \* messages delivered to the caller leg, in order
    toModel,         \* messages delivered to the model leg, in order
    nEvents,         \* messages consumed so far
    markAcks,        \* history: the mark events taken from the caller
    sess,            \* the connection specific state of two concurrent calls
    pick,            \* a call of pick_doctor_advanced: arguments and result
    agent            \* a TriageAgent: self.slots and the update calls made

relayVars == <<stream_sid, latest_media_timestamp, last_assistant_item,
               mark_queue, response_start_timestamp_twilio, callerOpen,
               modelState, inPc, outPc, handlerPc, data, response, toCaller,
               toModel, nEvents, markAcks>>

\* The variables the relay's steps leave alone.
otherVars == <<sess, pick, agent>>

vars == <<relayVars, otherVars>>

shared == <<stream_sid, latest_media_timestamp, last_assistant_item, mark_queue,
            response_start_timestamp_twilio>>

\* Two calls of handle_media_stream: each call opens its own model connection
\* (main.py:153-158), creates its own stream_sid, latest_media_timestamp,
\* last_assistant_item, mark_queue and response_start_timestamp_twilio
\* (main.py:161-166) and runs its own two coroutines.
Sessions == {"call1", "call2"}

SessionInit ==
    [stream_sid |-> None,
     latest_media_timestamp |-> 0,
     last_assistant_item |-> None,
     mark_queue |-> <<>>,
     response_start_timestamp_twilio |-> None,
     modelState |-> "OPEN",
     inPc |-> "recv",
     outPc |-> "recv"]

\* State once initialize_session has sent session.update and the connection
\* specific state has been set (main.py:159-166), both pumps about to start.
RelayInit ==
    /\ stream_sid = None
    /\ latest_media_timestamp = 0
    /\ last_assistant_item = None
    /\ mark_queue = <<>>
    /\ response_start_timestamp_twilio = None
    /\ callerOpen = TRUE
    /\ modelState = "OPEN"
    /\ inPc = "recv"
    /\ outPc = "recv"
    /\ handlerPc = "gather"
    /\ data = NoEvent
    /\ response = NoEvent
    /\ toCaller = <<>>
    /\ toModel = <<[type |-> "session.update"]>>
    /\ nEvents = 0
    /\ markAcks = [count |-> 0, genuine |-> TRUE]

\* triage_agent.py:59-71 and 739-741: SLOTS, copied by TriageAgent.__init__.
SlotKeys ==
    <<"emergency_check", "name", "symptom", "dob", "age", "insurance",
      "menstrual_cycle", "last_period", "pregnancy_week", "allergies",
      "contact">>

SlotKeySet == {SlotKeys[i] : i \in DOMAIN SlotKeys}

SLOTS == [k \in SlotKeySet |-> None]

AgentInit == [slots |-> SLOTS, updates |-> 0]

\* No call of pick_doctor_advanced has been made.
PickIdle == [args |-> None, result |-> None]

Init ==
    /\ RelayInit
    /\ sess = [s \in Sessions |-> SessionInit]
    /\ pick = PickIdle
    /\ agent = AgentInit

\* ------------------------------------------------------------- transports
\* await openai_ws.send(msg) from the outbound pump: delivered while the
\* connection is OPEN, otherwise ConnectionClosed is raised, which
\* send_to_twilio's except clause (main.py:271-272) turns into its return.
ModelSendFromOut(msg, okPc) ==
    IF modelState = "OPEN"
    THEN /\ toModel' = Append(toModel, msg)
         /\ outPc' = okPc
    ELSE /\ toModel' = toModel
         /\ outPc' = "done"

\* await websocket.send_json(msg): delivered while the caller is connected.
\* Once the caller has gone the framework either raises (the pump returns
\* through main.py:271-272) or discards the message, depending on the server.
CallerSend(msg, okPc) ==
    \/ /\ callerOpen
       /\ toCaller' = Append(toCaller, msg)
       /\ outPc' = okPc
    \/ /\ ~callerOpen
       /\ toCaller' = toCaller
       /\ outPc' \in {okPc, "done"}

\* ------------------------------------------- receive_from_twilio (inbound)
\* Variant: the frame is forwarded whatever the state of the model connection.
InMedia_NoStateTest(ev) ==
    /\ ev.type = "media"
    /\ latest_media_timestamp' = ev.timestamp
    /\ toModel' = Append(toModel, [type |-> "input_audio_buffer.append",
                                   audio |-> ev.payload])
    /\ inPc' = "recv"
    /\ UNCHANGED <<stream_sid, last_assistant_item, mark_queue,
                   response_start_timestamp_twilio>>

\* main.py:174-180: a media event while the model connection is OPEN.
InMedia(ev) ==
    /\ ev.type = "media"
    /\ modelState = "OPEN"
    /\ latest_media_timestamp' = ev.timestamp
    /\ toModel' = Append(toModel, [type |-> "input_audio_buffer.append",
                                   audio |-> ev.payload])
    /\ inPc' = "recv"
    /\ UNCHANGED <<stream_sid, last_assistant_item, mark_queue,
                   response_start_timestamp_twilio>>

\* Variant: an event that matches no branch sets the caller clock back to 0.
InIgnored_ResetsClock(ev) ==
    /\ \/ ev.type = "media" /\ modelState # "OPEN"
       \/ ev.type = "stop"
    /\ latest_media_timestamp' = 0
    /\ inPc' = "recv"
    /\ UNCHANGED <<stream_sid, last_assistant_item, mark_queue,
                   response_start_timestamp_twilio, toModel>>

\* main.py:174,181,188: a media event while the model connection is not OPEN
\* matches no branch (the first test fails, the event is neither start nor
\* mark); a stop event matches no branch either.
InIgnored(ev) ==
    /\ \/ ev.type = "media" /\ modelState # "OPEN"
       \/ ev.type = "stop"
    /\ inPc' = "recv"
    /\ UNCHANGED <<shared, toModel>>

\* Variant: response_start_timestamp_twilio and last_assistant_item are
\* declared nonlocal as well, so the start event resets the utterance.
InStart_NonlocalUtterance(ev) ==
    /\ ev.type = "start"
    /\ stream_sid' = Some(ev.streamSid)
    /\ latest_media_timestamp' = 0
    /\ last_assistant_item' = None
    /\ response_start_timestamp_twilio' = None
    /\ inPc' = "recv"
    /\ UNCHANGED <<mark_queue, toModel>>

\* main.py:181-187: only stream_sid and latest_media_timestamp are declared
\* nonlocal (main.py:170), so the assignments to response_start_timestamp_twilio
\* and last_assistant_item bind locals of receive_from_twilio.
InStart(ev) ==
    /\ ev.type = "start"
    /\ stream_sid' = Some(ev.streamSid)
    /\ latest_media_timestamp' = 0
    /\ inPc' = "recv"
    /\ UNCHANGED <<last_assistant_item, mark_queue,
                   response_start_timestamp_twilio, toModel>>

\* Variant: mark_queue.pop(0) without the test of main.py:189; on an empty
\* queue IndexError is raised and the coroutine returns through main.py:195.
InMark_UnguardedPop(ev) ==
    /\ ev.type = "mark"
    /\ IF mark_queue # <<>>
       THEN /\ mark_queue' = Tail(mark_queue)
            /\ inPc' = "recv"
       ELSE /\ mark_queue' = mark_queue
            /\ inPc' = "done"
    /\ UNCHANGED <<stream_sid, latest_media_timestamp, last_assistant_item,
                   response_start_timestamp_twilio, toModel>>

\* main.py:188-190: mark_queue.pop(0) when the queue is not empty.
InMark(ev) ==
    /\ ev.type = "mark"
    /\ mark_queue' = IF mark_queue # <<>> THEN Tail(mark_queue) ELSE mark_queue
    /\ inPc' = "recv"
    /\ UNCHANGED <<stream_sid, latest_media_timestamp, last_assistant_item,
                   response_start_timestamp_twilio, toModel>>

\* main.py:173,175,195-196: json.loads raises on a non-JSON text and
\* data['media']['timestamp'] raises KeyError; the except clause is outside
\* the loop, so the coroutine prints and returns.
InMalformed(ev) ==
    /\ ev.type \in {"nonjson", "media_no_timestamp"}
    /\ inPc' = "done"
    /\ UNCHANGED <<shared, toModel>>

\* The mark requests sent to the caller so far (main.py:235).
MarksSent ==
    Cardinality({i \in DOMAIN toCaller : toCaller[i].event = "mark"})

\* The history of mark events after one more has been taken (main.py:188):
\* their number while each of them answers a mark request sent before it,
\* and not genuine from the first that answers none.
AckTaken ==
    IF markAcks.genuine /\ markAcks.count < MarksSent
    THEN [count |-> markAcks.count + 1, genuine |-> TRUE]
    ELSE [count |-> 0, genuine |-> FALSE]

\* One iteration of the loop at main.py:172 for one delivered message.
InRecv ==
    /\ inPc = "recv"
    /\ callerOpen
    /\ nEvents < MaxEvents
    /\ \E ev \in CallerEvents :
          /\ data' = ev
          /\ \/ InMedia(ev)
             \/ InIgnored(ev)
             \/ InStart(ev)
             \/ InMark(ev)
             \/ InMalformed(ev)
    /\ nEvents' = nEvents + 1
    /\ markAcks' = IF data'.type = "mark" THEN AckTaken ELSE markAcks
    /\ UNCHANGED <<callerOpen, modelState, outPc, handlerPc, response,
                   toCaller, otherVars>>

\* The loop at main.py:172 once the caller has gone: the iterator raises
\* WebSocketDisconnect, handled at main.py:191-194 (openai_ws.close() is
\* started when the connection is OPEN), or it ends the iteration without
\* raising (the framework's iter_text absorbs the disconnect) and the
\* coroutine returns.
InDisconnected ==
    /\ inPc = "recv"
    /\ ~callerOpen
    /\ \/ /\ modelState = "OPEN"
          /\ modelState' = "CLOSING"
          /\ inPc' = "closing"
       \/ /\ modelState # "OPEN"
          /\ modelState' = modelState
          /\ inPc' = "done"
       \/ /\ modelState' = modelState
          /\ inPc' = "done"
    /\ UNCHANGED <<shared, callerOpen, outPc, handlerPc, data, response,
                   toCaller, toModel, nEvents, markAcks, otherVars>>

\* main.py:194: await openai_ws.close() returns, the connection is CLOSED.
InCloseDone ==
    /\ inPc = "closing"
    /\ modelState' = "CLOSED"
    /\ inPc' = "done"
    /\ UNCHANGED <<shared, callerOpen, outPc, handlerPc, data, response,
                   toCaller, toModel, nEvents, markAcks, otherVars>>

\* ---------------------------------------------- send_to_twilio (outbound)
\* main.py:243: json.loads raises on a non-JSON text; main.py:248: b64decode
\* raises on incorrect padding.  Both leave through main.py:271-272.
OutMalformed(ev) ==
    /\ \/ ev.type = "nonjson"
       \/ ev.type = "delta" /\ B64Decode(ev.delta) = "error"
    /\ outPc' = "done"
    /\ UNCHANGED <<shared, toCaller, toModel>>

\* Variant: only the first delta of an item is forwarded.
OutDelta_FirstOfItemOnly(ev) ==
    /\ ev.type = "delta"
    /\ B64Decode(ev.delta) # "error"
    /\ IF ev.item_id # last_assistant_item
       THEN CallerSend([event |-> "media", streamSid |-> stream_sid,
                        payload |-> AudioPayload(ev.delta)], "media_sent")
       ELSE /\ outPc' = "media_sent"
            /\ toCaller' = toCaller
    /\ UNCHANGED <<shared, toModel>>

\* main.py:247-256: an audio delta is re-encoded and sent to the caller as a
\* media frame carrying the stream_sid of that moment.
OutDelta(ev) ==
    /\ ev.type = "delta"
    /\ B64Decode(ev.delta) # "error"
    /\ CallerSend([event |-> "media", streamSid |-> stream_sid,
                   payload |-> AudioPayload(ev.delta)], "media_sent")
    /\ UNCHANGED <<shared, toModel>>

\* Variant: every delta carrying an item_id restarts the utterance.
IsNewItem_Always(item_id, current) == item_id # None

\* main.py:258-260: the test that starts a new utterance.
IsNewItem(item_id, current) == item_id # None /\ item_id # current

\* main.py:258-264, after the media frame's send has returned: the utterance
\* is (re)started for a new item_id, then send_mark (main.py:228-235) sends
\* the mark request when stream_sid is set.
OutAfterMedia ==
    /\ outPc = "media_sent"
    /\ IF IsNewItem(response.item_id, last_assistant_item)
       THEN /\ response_start_timestamp_twilio' = Some(latest_media_timestamp)
            /\ last_assistant_item' = response.item_id
       ELSE UNCHANGED <<response_start_timestamp_twilio, last_assistant_item>>
    /\ IF stream_sid # None
       THEN CallerSend([event |-> "mark", streamSid |-> stream_sid,
                        name |-> "responsePart"], "mark_sent")
       ELSE /\ outPc' = "recv"
            /\ toCaller' = toCaller
    /\ UNCHANGED <<stream_sid, latest_media_timestamp, mark_queue, callerOpen,
                   modelState, inPc, handlerPc, data, response,
                   toModel, nEvents, markAcks, otherVars>>

\* Variant: the mark is recorded only for the first delta of an utterance
\* (the caller clock has not moved since the utterance started).
OutAfterMark_FirstOfItemOnly ==
    /\ outPc = "mark_sent"
    /\ mark_queue' = IF mark_queue = <<>> THEN <<"responsePart">>
                                         ELSE mark_queue
    /\ outPc' = "recv"
    /\ UNCHANGED <<stream_sid, latest_media_timestamp, last_assistant_item,
                   response_start_timestamp_twilio, callerOpen, modelState,
                   inPc, handlerPc, data, response, toCaller, toModel,
                   nEvents, markAcks, otherVars>>

\* main.py:236: mark_queue.append('responsePart') once the mark request's
\* send has returned.
OutAfterMark ==
    /\ outPc = "mark_sent"
    /\ mark_queue' = Append(mark_queue, "responsePart")
    /\ outPc' = "recv"
    /\ UNCHANGED <<stream_sid, latest_media_timestamp, last_assistant_item,
                   response_start_timestamp_twilio, callerOpen, modelState,
                   inPc, handlerPc, data, response, toCaller,
                   toModel, nEvents, markAcks, otherVars>>

\* Variant: the pending marks are not consulted.
ShouldInterrupt_IgnoresMarks == response_start_timestamp_twilio # None

\* main.py:202: the condition under which handle_speech_started_event acts.
ShouldInterrupt ==
    mark_queue # <<>> /\ response_start_timestamp_twilio # None

\* Variant: the operands of the subtraction exchanged.
ElapsedTime_Swapped(latest, start) == start - latest

\* main.py:203: elapsed_time.
ElapsedTime(latest, start) == latest - start

\* main.py:211-216: the truncate event.
TruncateEvent ==
    [type |-> "conversation.item.truncate",
     item_id |-> last_assistant_item,
     content_index |-> 0,
     audio_end_ms |-> ElapsedTime(latest_media_timestamp,
                                  Val(response_start_timestamp_twilio))]

\* Variant: handle_speech_started_event is called without the test of
\* main.py:268 and acts on pending marks alone; without a current item the
\* truncate is skipped (main.py:207) and the clear is sent.
OutSpeechStarted_NoItemTest(ev) ==
    /\ ev.type = "speech_started"
    /\ IF mark_queue = <<>>
       THEN /\ outPc' = "recv"
            /\ toModel' = toModel
            /\ toCaller' = toCaller
       ELSE IF last_assistant_item # None
       THEN /\ ModelSendFromOut(TruncateEvent, "truncate_sent")
            /\ toCaller' = toCaller
       ELSE /\ CallerSend([event |-> "clear", streamSid |-> stream_sid],
                          "clear_sent")
            /\ toModel' = toModel
    /\ UNCHANGED shared

\* main.py:266-270 and 198-217: speech_started with a current item calls
\* handle_speech_started_event, which sends the truncate event when
\* ShouldInterrupt holds (last_assistant_item is then still set: nothing has
\* awaited since main.py:268).
OutSpeechStarted(ev) ==
    /\ ev.type = "speech_started"
    /\ IF last_assistant_item # None /\ ShouldInterrupt
       THEN ModelSendFromOut(TruncateEvent, "truncate_sent")
       ELSE /\ outPc' = "recv"
            /\ toModel' = toModel
    /\ UNCHANGED <<shared, toCaller>>

\* Variant: an "error" event from the model ends the coroutine.
OutOther_ErrorIsFatal(ev) ==
    /\ ev.type \in {"error", "response.done", "delta_no_audio"}
    /\ outPc' = IF ev.type = "error" THEN "done" ELSE "recv"
    /\ UNCHANGED <<shared, toCaller, toModel>>

\* main.py:247,266: every other event (an "error" event, any other type, a
\* delta event without the 'delta' key) matches neither test.
OutOther(ev) ==
    /\ ev.type \in {"error", "response.done", "delta_no_audio"}
    /\ outPc' = "recv"
    /\ UNCHANGED <<shared, toCaller, toModel>>

\* One iteration of the loop at main.py:242 for one delivered message, up to
\* the first await of its handling.
OutRecv ==
    /\ outPc = "recv"
    /\ modelState # "CLOSED"
    /\ nEvents < MaxEvents
    /\ \E ev \in ModelEvents :
          /\ response' = ev
          /\ \/ OutMalformed(ev)
             \/ OutDelta(ev)
             \/ OutSpeechStarted(ev)
             \/ OutOther(ev)
    /\ nEvents' = nEvents + 1
    /\ UNCHANGED <<callerOpen, modelState, inPc, handlerPc, data, markAcks,
                   otherVars>>

\* main.py:219-222, after the truncate event's send has returned: the clear
\* event is sent to the caller.
OutAfterTruncate ==
    /\ outPc = "truncate_sent"
    /\ CallerSend([event |-> "clear", streamSid |-> stream_sid], "clear_sent")
    /\ UNCHANGED <<shared, callerOpen, modelState, inPc, handlerPc, data,
                   response, toModel, nEvents, markAcks, otherVars>>

\* Variant: last_assistant_item and response_start_timestamp_twilio are not
\* declared nonlocal, so only the queue is cleared.
OutAfterClear_LocalReset ==
    /\ outPc = "clear_sent"
    /\ mark_queue' = <<>>
    /\ outPc' = "recv"
    /\ UNCHANGED <<stream_sid, latest_media_timestamp, last_assistant_item,
                   response_start_timestamp_twilio, callerOpen, modelState,
                   inPc, handlerPc, data, response, toCaller, toModel,
                   nEvents, markAcks, otherVars>>

\* Variant: main.py:226 is missing, the start timestamp outlives the item.
OutAfterClear_KeepsStart ==
    /\ outPc = "clear_sent"
    /\ mark_queue' = <<>>
    /\ last_assistant_item' = None
    /\ outPc' = "recv"
    /\ UNCHANGED <<stream_sid, latest_media_timestamp,
                   response_start_timestamp_twilio, callerOpen, modelState,
                   inPc, handlerPc, data, response, toCaller, toModel,
                   nEvents, markAcks, otherVars>>

\* Variant: main.py:224-226 are missing, nothing is reset after the clear.
OutAfterClear_NoReset ==
    /\ outPc = "clear_sent"
    /\ outPc' = "recv"
    /\ UNCHANGED <<shared, callerOpen, modelState, inPc, handlerPc, data,
                   response, toCaller, toModel, nEvents, markAcks,
                   otherVars>>

\* main.py:224-226, after the clear event's send has returned.
OutAfterClear ==
    /\ outPc = "clear_sent"
    /\ mark_queue' = <<>>
    /\ last_assistant_item' = None
    /\ response_start_timestamp_twilio' = None
    /\ outPc' = "recv"
    /\ UNCHANGED <<stream_sid, latest_media_timestamp, callerOpen, modelState,
                   inPc, handlerPc, data, response, toCaller,
                   toModel, nEvents, markAcks, otherVars>>

\* Variant: the loop over a closed model connection keeps waiting.
OutClosed_KeepsWaiting ==
    /\ outPc = "recv"
    /\ modelState = "CLOSED"
    /\ UNCHANGED vars

\* The loop at main.py:242 once the model connection is CLOSED: the
\* iteration ends (or ConnectionClosed is caught at main.py:271) and the
\* coroutine returns.
OutClosed ==
    /\ outPc = "recv"
    /\ modelState = "CLOSED"
    /\ outPc' = "done"
    /\ UNCHANGED <<shared, callerOpen, modelState, inPc, handlerPc, data,
                   response, toCaller, toModel, nEvents, markAcks, otherVars>>

\* --------------------------------------------------------- handler, peers
\* main.py:274 and 153-158: gather returns once both coroutines have
\* returned; leaving the async with block closes the model connection, and
\* the endpoint's return makes the server close the caller's websocket.
HandlerReturn ==
    /\ handlerPc = "gather"
    /\ inPc = "done"
    /\ outPc = "done"
    /\ handlerPc' = "returned"
    /\ modelState' = "CLOSED"
    /\ callerOpen' = FALSE
    /\ UNCHANGED <<shared, inPc, outPc, data, response, toCaller,
                   toModel, nEvents, markAcks, otherVars>>

\* The caller hangs up or its transport fails.
CallerDisconnect ==
    /\ callerOpen
    /\ callerOpen' = FALSE
    /\ UNCHANGED <<shared, modelState, inPc, outPc, handlerPc, data, response,
                   toCaller, toModel, nEvents, markAcks, otherVars>>

\* The model service closes its connection or the transport fails.
ModelDisconnect ==
    /\ modelState = "OPEN"
    /\ modelState' = "CLOSED"
    /\ UNCHANGED <<shared, callerOpen, inPc, outPc, handlerPc, data, response,
                   toCaller, toModel, nEvents, markAcks, otherVars>>

\* Steps of the relay's own code.
RelayStep ==
    \/ InRecv
    \/ InDisconnected
    \/ InCloseDone
    \/ OutRecv
    \/ OutAfterMedia
    \/ OutAfterMark
    \/ OutAfterTruncate
    \/ OutAfterClear
    \/ OutClosed
    \/ HandlerReturn

Next ==
    \/ RelayStep
    \/ CallerDisconnect
    \/ ModelDisconnect

Spec == Init /\ [][Next]_vars

\* Scheduling: the event loop resumes a coroutine whose await has completed
\* and gather returns once both are done.  Nothing obliges either peer to
\* send a message or to disconnect.
Fairness ==
    /\ WF_vars(InDisconnected \/ InCloseDone)
    /\ WF_vars(OutAfterMedia \/ OutAfterMark \/ OutAfterTruncate
               \/ OutAfterClear \/ OutClosed)
    /\ WF_vars(HandlerReturn)

FairSpec == Spec /\ Fairness

\* ------------------------------------------------- two concurrent calls
\* Each message is handled in one step here: the steps of one call are the
\* relay's steps above, and what matters is whose variables they assign.

\* Variant: the connection specific state is kept at module level, where an
\* assignment in one call is seen by every call.
SetSession_ModuleLevel(s, rec) == [t \in Sessions |-> rec]

\* main.py:161-166: the state is created inside the call of
\* handle_media_stream, so the coroutines of call s rebind (nonlocal) and
\* mutate the variables of call s only.
SetSession(s, rec) == [sess EXCEPT ![s] = rec]

\* main.py:181-187 in call s.
SessStart(s) ==
    /\ sess[s].inPc = "recv"
    /\ \E sid \in StreamSids :
          sess' = SetSession(s, [sess[s] EXCEPT
                                   !.stream_sid = Some(sid),
                                   !.latest_media_timestamp = 0])
    /\ UNCHANGED <<relayVars, pick, agent>>

\* main.py:174-180 in call s; a frame taken while the model connection is
\* not OPEN matches no branch.
SessMedia(s) ==
    /\ sess[s].inPc = "recv"
    /\ \E f \in CallerMediaFrames :
          sess' = SetSession(s, [sess[s] EXCEPT
                                   !.latest_media_timestamp =
                                       IF sess[s].modelState = "OPEN"
                                       THEN f.timestamp ELSE @])
    /\ UNCHANGED <<relayVars, pick, agent>>

\* main.py:188-190 in call s.
SessMark(s) ==
    /\ sess[s].inPc = "recv"
    /\ sess' = SetSession(s, [sess[s] EXCEPT
                                !.mark_queue = IF @ # <<>> THEN Tail(@)
                                                           ELSE @])
    /\ UNCHANGED <<relayVars, pick, agent>>

\* main.py:173,175,195-196 in call s: a message that raises ends the
\* inbound coroutine of call s.
SessCallerMalformed(s) ==
    /\ sess[s].inPc = "recv"
    /\ sess' = SetSession(s, [sess[s] EXCEPT !.inPc = "done"])
    /\ UNCHANGED <<relayVars, pick, agent>>

\* main.py:191-194 in call s: the caller of call s has gone; the inbound
\* coroutine returns, closing the model connection of call s when it took
\* the WebSocketDisconnect path.
SessCallerGone(s) ==
    /\ sess[s].inPc = "recv"
    /\ \E st \in {sess[s].modelState, "CLOSED"} :
          sess' = SetSession(s, [sess[s] EXCEPT !.inPc = "done",
                                                !.modelState = st])
    /\ UNCHANGED <<relayVars, pick, agent>>

\* main.py:247-264 and 228-236 in call s: an audio delta that decodes.
SessDelta(s) ==
    /\ sess[s].outPc = "recv"
    /\ sess[s].modelState = "OPEN"
    /\ Len(sess[s].mark_queue) < MaxSessMarks
    /\ \E ev \in ModelAudioDeltas :
          /\ B64Decode(ev.delta) # "error"
          /\ LET isNew == IsNewItem(ev.item_id, sess[s].last_assistant_item)
             IN  sess' = SetSession(s, [sess[s] EXCEPT
                    !.response_start_timestamp_twilio =
                        IF isNew THEN Some(sess[s].latest_media_timestamp)
                                 ELSE @,
                    !.last_assistant_item =
                        IF isNew THEN ev.item_id ELSE @,
                    !.mark_queue =
                        IF sess[s].stream_sid # None
                        THEN Append(@, "responsePart") ELSE @])
    /\ UNCHANGED <<relayVars, pick, agent>>

\* main.py:266-270 and 198-226 in call s.
SessSpeechStarted(s) ==
    /\ sess[s].outPc = "recv"
    /\ sess[s].modelState = "OPEN"
    /\ sess[s].last_assistant_item # None
    /\ sess[s].mark_queue # <<>>
    /\ sess[s].response_start_timestamp_twilio # None
    /\ sess' = SetSession(s, [sess[s] EXCEPT
                                !.mark_queue = <<>>,
                                !.last_assistant_item = None,
                                !.response_start_timestamp_twilio = None])
    /\ UNCHANGED <<relayVars, pick, agent>>

\* main.py:243,248,271-272 in call s: a message that raises ends the
\* outbound coroutine of call s.
SessModelMalformed(s) ==
    /\ sess[s].outPc = "recv"
    /\ sess[s].modelState = "OPEN"
    /\ sess' = SetSession(s, [sess[s] EXCEPT !.outPc = "done"])
    /\ UNCHANGED <<relayVars, pick, agent>>

\* The model connection of call s closes or fails.
SessModelGone(s) ==
    /\ sess[s].modelState = "OPEN"
    /\ sess' = SetSession(s, [sess[s] EXCEPT !.modelState = "CLOSED"])
    /\ UNCHANGED <<relayVars, pick, agent>>

\* main.py:242,271-272 in call s: the loop over a closed model connection
\* ends.
SessOutClosed(s) ==
    /\ sess[s].outPc = "recv"
    /\ sess[s].modelState = "CLOSED"
    /\ sess' = SetSession(s, [sess[s] EXCEPT !.outPc = "done"])
    /\ UNCHANGED <<relayVars, pick, agent>>

\* A step of call s.
SessStep(s) ==
    \/ SessStart(s)
    \/ SessMedia(s)
    \/ SessMark(s)
    \/ SessCallerMalformed(s)
    \/ SessCallerGone(s)
    \/ SessDelta(s)
    \/ SessSpeechStarted(s)
    \/ SessModelMalformed(s)
    \/ SessModelGone(s)
    \/ SessOutClosed(s)

TwoNext == \E s \in Sessions : SessStep(s)

TwoSpec == Init /\ [][TwoNext]_vars

\* ------------------------------- pick_doctor_advanced (triage_agent.py)
\* Dates are days counted from the date of datetime.today() (day 0), a
\* datetime with zero minutes is the pair of its date and its hour.

\* triage_agent.py:421-425: the weekday names, indexed by d.weekday() + 1.
Weekdays == <<"Mon", "Tue", "Wed", "Thu", "Fri", "Sat", "Sun">>

\* triage_agent.py:429-430: hh of map(int, t.split(":")) for the times in use.
Hour(t) ==
    CASE t = "09:00" -> 9
      [] t = "10:00" -> 10
      [] t = "14:00" -> 14
      [] OTHER       -> 0

\* triage_agent.py:492: slot_dt.strftime("%H:%M").
TimeStr(hh) ==
    CASE hh = 9  -> "09:00"
      [] hh = 10 -> "10:00"
      [] hh = 14 -> "14:00"
      [] OTHER   -> "00:00"

\* triage_agent.py:462,481: str.lower() for the insurance names in use.
Lower(x) ==
    CASE x = "Aetna"   -> "aetna"
      [] x = " Aetna " -> " aetna "
      [] OTHER         -> x

\* triage_agent.py:462: str.strip() for the insurance names in use.
Strip(x) ==
    CASE x = " Aetna " -> "Aetna"
      [] x = " aetna " -> "aetna"
      [] OTHER         -> x

\* triage_agent.py:458: the search horizon in days.
Horizon(urgency) ==
    IF urgency = "emergency" THEN 1 ELSE IF urgency = "urgent" THEN 7 ELSE 14

\* A slot's datetime in hours from day 0, 00:00 (the order on datetimes).
SlotDt(day, hh) == day * 24 + hh

RECURSIVE SortAscending(_)
SortAscending(S) ==
    IF S = {} THEN <<>>
    ELSE LET m == CHOOSE x \in S : \A y \in S : x <= y
         IN  <<m>> \o SortAscending(S \ {m})

\* triage_agent.py:412-432: the weekly schedule expanded over `days` days
\* from the start date, sorted by datetime.
IterScheduleSlots(schedule, startWeekday, days) ==
    SortAscending(
        {SlotDt(i, Hour(t)) :
            <<i, t>> \in {<<i, t>> \in (0..(days - 1)) \X {"09:00", "10:00", "14:00"} :
                /\ Weekdays[((startWeekday + i) % 7) + 1] \in DOMAIN schedule
                /\ t \in schedule[Weekdays[((startWeekday + i) % 7) + 1]]}})

\* triage_agent.py:487-496: the candidate of one slot.
Candidate(doc, dt, args) ==
    [doctor_name |-> doc.name,
     subspecialty_code |-> args.subspecialty_code,
     available_date |-> dt \div 24,
     available_time |-> TimeStr(dt % 24),
     available_slots |-> <<TimeStr(dt % 24)>>,
     wait_days |-> dt \div 24,
     preferred_match |-> IF args.pref_days # {}
                         THEN (dt \div 24) \in args.pref_days
                         ELSE TRUE]

\* triage_agent.py:504-506: datetime.strptime of best's date and time.
BestDt(best) == SlotDt(best.available_date, Hour(best.available_time))

\* triage_agent.py:497-507: best after the candidate has been compared.
Choose(best, cand, dt) ==
    IF best = None THEN cand
    ELSE IF cand.preferred_match /\ ~Val(best).preferred_match THEN cand
    ELSE IF /\ cand.preferred_match = Val(best).preferred_match
            /\ dt < BestDt(Val(best))
         THEN cand
    ELSE Val(best)

\* triage_agent.py:484-510: the loop over one doctor's slots; for emergency
\* the function returns after the first slot.
RECURSIVE ScanSlots(_, _, _, _, _)
ScanSlots(doc, slots, i, st, args) ==
    IF i > Len(slots) \/ st.returned THEN st
    ELSE ScanSlots(doc, slots, i + 1,
                   [best |-> Some(Choose(st.best,
                                         Candidate(doc, slots[i], args),
                                         slots[i])),
                    returned |-> args.urgency = "emergency"],
                   args)

\* triage_agent.py:462,477-482: the specialty and insurance filters.
Qualifies(doc, args) ==
    /\ args.subspecialty_code \in doc.subspecialties
    /\ \/ Strip(Lower(args.insurance)) = ""
       \/ Strip(Lower(args.insurance)) \in {Lower(x) : x \in doc.insurances}

\* triage_agent.py:476-510: the loop over the doctors in their order.
RECURSIVE ScanDoctors(_, _, _)
ScanDoctors(j, st, args) ==
    IF j > Len(args.doctors) \/ st.returned THEN st
    ELSE IF ~Qualifies(args.doctors[j], args) THEN ScanDoctors(j + 1, st, args)
    ELSE ScanDoctors(j + 1,
                     ScanSlots(args.doctors[j],
                               IterScheduleSlots(args.doctors[j].schedule,
                                                 args.startWeekday,
                                                 Horizon(args.urgency)),
                               1, st, args),
                     args)

\* triage_agent.py:512-520: the result when no slot was found ("TBD" is
\* no date, written -1).
NoDoctorAvailable(args) ==
    [doctor_name |-> "No Doctor Available",
     subspecialty_code |-> args.subspecialty_code,
     available_date |-> -1,
     available_time |-> "",
     available_slots |-> <<>>,
     wait_days |-> -1,
     preferred_match |-> FALSE]

\* triage_agent.py:434-520.
pick_doctor_advanced(args) ==
    LET st == ScanDoctors(1, [best |-> None, returned |-> FALSE], args)
    IN  IF st.best # None THEN Val(st.best) ELSE NoDoctorAvailable(args)

\* The doctors of an availability.
DoctorPool ==
    {[name |-> "Dr. Kim", subspecialties |-> {"general_obgyn", "maternal_fetal"},
      insurances |-> {"aetna"},
      schedule |-> [d \in {"Mon"} |-> {"14:00"}]],
     [name |-> "Dr. Lee", subspecialties |-> {"general_obgyn"},
      insurances |-> {"Aetna", "uhc"},
      schedule |-> [d \in {"Mon", "Wed"} |-> {"09:00", "10:00"}]],
     [name |-> "Dr. Roy", subspecialties |-> {"urogynecology"},
      insurances |-> {"aetna", "uhc"},
      schedule |-> [d \in {"Mon"} |-> {"09:00"}]],
     [name |-> "Dr. Diaz", subspecialties |-> {"general_obgyn"},
      insurances |-> {"uhc"},
      schedule |-> [d \in {"Tue"} |-> {"09:00"}]]}

\* The sequences of at most n doctors.
RECURSIVE DoctorLists(_)
DoctorLists(n) ==
    IF n = 0 THEN {<<>>}
    ELSE DoctorLists(n - 1)
         \cup {Append(l, d) : l \in DoctorLists(n - 1), d \in DoctorPool}

\* The arguments of a call: availability["doctors"], subspecialty_code,
\* urgency, insurance ("" for None), the dates of patient_windows, and the
\* weekday of datetime.today() (0 is Monday).
PickArgs ==
    [doctors : DoctorLists(MaxDoctors),
     subspecialty_code : {"general_obgyn"},
     urgency : {"emergency", "urgent", "routine"},
     insurance : {"", " Aetna ", "uhc"},
     pref_days : {{}, {0}, {2}},
     startWeekday : {0, 1, 6}]

PickInit ==
    /\ RelayInit
    /\ sess = [s \in Sessions |-> SessionInit]
    /\ agent = AgentInit
    /\ pick \in [args : {Some(a) : a \in PickArgs}, result : {None}]

\* One call of pick_doctor_advanced.
PickCall ==
    /\ pick.args # None
    /\ pick.result = None
    /\ pick' = [pick EXCEPT !.result = Some(pick_doctor_advanced(Val(pick.args)))]
    /\ UNCHANGED <<relayVars, sess, agent>>

PickNext == PickCall

PickSpec == PickInit /\ [][PickNext]_vars

\* ------------------- extract_slots, TriageAgent.update (triage_agent.py)
\* A slot holds None or Some(text); the int of calc_age is written by its
\* digits.

\* The user texts of a run (stripped, as raw at triage_agent.py:158).
UserTexts ==
    {"hello", "yes", "no", "1990-05-01", "1990-13-01", "5551234567",
     "Jane Doe", "12 weeks", "skip", "bleeding"}

\* triage_agent.py:162: the noise filter.
IsNoise(raw) == raw \in {"hello"}

\* triage_agent.py:166-169: the substring tests, "y" and "n" among them:
\* "yes" contains "y"; "no", "Jane Doe" and "bleeding" contain "n"; the
\* other texts contain none of the words.
EmergencyAnswer(raw) ==
    CASE raw \in {"yes"}                      -> Some("yes")
      [] raw \in {"no", "Jane Doe", "bleeding"} -> Some("no")
      [] OTHER                                -> None

\* triage_agent.py:180: re.fullmatch(r"\d{4}-\d{2}-\d{2}", lower).
IsDobText(raw) == raw \in {"1990-05-01", "1990-13-01", "1991-02-03"}

\* triage_agent.py:100-105: _validate_dob (month 13 does not parse).
ValidateDob(dob) == dob \in {"1990-05-01", "1991-02-03"}

\* triage_agent.py:107-113: calc_age, today being 2026-11-01.
CalcAge(dob) ==
    CASE dob = "1990-05-01" -> "36"
      [] dob = "1991-02-03" -> "35"
      [] OTHER              -> ""

\* triage_agent.py:187: seven digits in a row, or an "@".
IsContactText(raw) == raw \in {"5551234567"}

\* triage_agent.py:134-148: parse_full_name_en; a text with a digit or of a
\* single word is no name.
ParseFullNameEn(raw) ==
    IF raw = "Jane Doe" THEN Some("Jane Doe") ELSE None

\* triage_agent.py:115-122: _parse_pregnancy_from_text.
ParsePregnancyFromText(raw) ==
    IF raw = "12 weeks" THEN Some("12") ELSE None

\* triage_agent.py:97-98: _is_skip_token.
IsSkipToken(raw) == raw \in {"skip", "no"}

\* Python's truth value of a slot: None and "" are false.
Truthy(o) == o # None /\ o # Some("")

\* The arguments of the tool call (triage_agent.py:255-257), a dict from
\* keys to texts; <<>> is no tool call, an empty dict, or an exception.
ToolArgs ==
    {<<>>,
     [k \in {"age"} |-> "30"],
     [k \in {"symptom", "name"} |->
          IF k = "symptom" THEN "cramps" ELSE "Ann Lee"],
     [k \in {"dob", "insurance"} |->
          IF k = "dob" THEN "1991-02-03" ELSE " Aetna "],
     [k \in {"dob"} |-> "1990-13-01"]}

\* triage_agent.py:258-263: the loop over the arguments (none of ToolArgs
\* holds both "dob" and "age", so their order does not matter).
ApplyArgs(current, args) ==
    LET fills(k) ==
            /\ k \in DOMAIN args
            /\ args[k] # ""
            /\ ~Truthy(current[k])
            /\ (k = "dob" => ValidateDob(args[k]))
    IN  [k \in SlotKeySet |->
            IF fills(k) THEN Some(Strip(args[k]))
            ELSE IF k = "age" /\ fills("dob") THEN Some(CalcAge(args["dob"]))
            ELSE current[k]]

\* triage_agent.py:207,217: the keys that are missing, in the order of SLOTS.
Missing(current) ==
    SelectSeq(SlotKeys, LAMBDA k : ~Truthy(current[k]) /\ k # "emergency_check")

\* triage_agent.py:205-214: a skip token answers the first missing field.
SkipFirstMissing(current) ==
    LET first_missing == Missing(current)[1]
    IN  IF first_missing \in {"insurance", "menstrual_cycle", "last_period",
                              "pregnancy_week"}
        THEN [current EXCEPT ![first_missing] = Some("NA")]
        ELSE IF first_missing = "allergies"
        THEN [current EXCEPT ![first_missing] = Some("None")]
        ELSE current

\* triage_agent.py:198-273: from the pregnancy rule to the end.
ExtractRest(raw, current, args) ==
    LET pg == ParsePregnancyFromText(raw)
        c1 == IF ~Truthy(current["pregnancy_week"]) /\ pg # None
              THEN [current EXCEPT !["pregnancy_week"] = pg]
              ELSE current
        c2 == ApplyArgs(c1, args)
    IN  IF IsSkipToken(raw) /\ Missing(c1) # <<>> THEN SkipFirstMissing(c1)
        ELSE IF Missing(c1) = <<>> THEN c1
        ELSE IF Truthy(c2["name"]) /\ ~Truthy(c2["symptom"])
        THEN [c2 EXCEPT !["symptom"] = Some(raw)]
        ELSE c2

\* triage_agent.py:153-273.
extract_slots(raw, current, args) ==
    IF IsNoise(raw) THEN current
    ELSE IF current["emergency_check"] = None
    THEN IF EmergencyAnswer(raw) # None
         THEN [current EXCEPT !["emergency_check"] = EmergencyAnswer(raw)]
         ELSE current
    ELSE IF ~Truthy(current["dob"]) /\ IsDobText(raw)
    THEN IF ValidateDob(raw)
         THEN [current EXCEPT !["dob"] = Some(raw),
                              !["age"] = Some(CalcAge(raw))]
         ELSE current
    ELSE IF ~Truthy(current["contact"]) /\ IsContactText(raw)
    THEN [current EXCEPT !["contact"] = Some(raw)]
    ELSE IF ~Truthy(current["name"]) /\ ParseFullNameEn(raw) # None
    THEN [current EXCEPT !["name"] = ParseFullNameEn(raw)]
    ELSE ExtractRest(raw, current, args)

\* triage_agent.py:744-746: TriageAgent.update.
Update ==
    /\ agent.updates < MaxUpdates
    /\ \E raw \in UserTexts, args \in ToolArgs :
          agent' = [slots |-> extract_slots(raw, agent.slots, args),
                    updates |-> agent.updates + 1]
    /\ UNCHANGED <<relayVars, sess, pick>>

AgentNext == Update

AgentSpec == Init /\ [][AgentNext]_vars

\* ------------------------------------------------------------ properties
Last(q) == q[Len(q)]

IsTruncate(m) == m.type = "conversation.item.truncate"

Truncates == {i \in DOMAIN toModel : IsTruncate(toModel[i])}

CallerLog(kind) == {i \in DOMAIN toCaller : toCaller[i].event = kind}

\* The step in which the outbound pump takes a speech_started event.
SpeechStartedStep == OutRecv /\ response'.type = "speech_started"

\* The step in which the outbound pump takes an audio delta it can decode.
AudioDeltaStep ==
    /\ OutRecv
    /\ response'.type = "delta"
    /\ response'.delta # "QQ="

\* C1: a truncate command is sent only while a speech_started event is being
\* processed with a current utterance, and when the caller clock T1 is then
\* at least the utterance's start T0 the command carries the current item,
\* content_index 0 and audio_end_ms = T1 - T0.
C1_TruncateCarriesElapsed ==
    [][toModel' # toModel /\ IsTruncate(Last(toModel'))
       => /\ SpeechStartedStep
          /\ last_assistant_item # <<>>
          /\ response_start_timestamp_twilio # <<>>
          /\ toModel' = Append(toModel, Last(toModel'))
          /\ Last(toModel').item_id = last_assistant_item
          /\ Last(toModel').content_index = 0
          /\ (latest_media_timestamp >= response_start_timestamp_twilio[1]
              => Last(toModel').audio_end_ms
                   = latest_media_timestamp - response_start_timestamp_twilio[1])
    ]_vars

\* The spec's example: utterance a1 started at 1000, clock at 1350, the
\* truncate sent for a1 carries 350.
C1_Witness ==
    /\ Truncates # {}
    /\ Last(toModel) = [type |-> "conversation.item.truncate",
                        item_id |-> <<"a1">>, content_index |-> 0,
                        audio_end_ms |-> 350]
    /\ latest_media_timestamp = 1350

\* C2: every truncate command sent to the model has audio_end_ms >= 0.
C2_AudioEndNonNegative ==
    \A i \in Truncates : toModel[i].audio_end_ms >= 0

C4_ClearedAfterBargeIn ==
    [][outPc = "clear_sent" /\ outPc' # outPc
       => /\ mark_queue' = <<>>
          /\ last_assistant_item' = <<>>
          /\ response_start_timestamp_twilio' = <<>>
          /\ outPc' = "recv"
    ]_vars

\* A completed barge-in that found two pending marks (start, two deltas and
\* speech_started are the only messages consumed).
C4_Witness ==
    /\ outPc = "recv"
    /\ response.type = "speech_started"
    /\ Truncates # {}
    /\ Cardinality(CallerLog("mark")) = 2
    /\ Cardinality(CallerLog("clear")) = 1
    /\ nEvents = 4
    /\ mark_queue = <<>>
    /\ last_assistant_item = <<>>

\* C5: processing an audio delta whose item_id is the current item leaves
\* the utterance's start timestamp (and the item) unchanged, whatever the
\* caller clock; a delta with another item_id becomes the current item and
\* the start timestamp becomes the caller clock of that moment.
C5_UtteranceStartsOncePerItem ==
    [][outPc = "media_sent" /\ outPc' # outPc /\ response.item_id # <<>>
       => IF response.item_id = last_assistant_item
          THEN /\ response_start_timestamp_twilio'
                    = response_start_timestamp_twilio
               /\ last_assistant_item' = last_assistant_item
          ELSE /\ last_assistant_item' = response.item_id
               /\ response_start_timestamp_twilio' = <<latest_media_timestamp>>
    ]_vars

\* A second delta of a1 processed after the clock moved on from 1000, the
\* start of a1, to 1350.
C5_Witness ==
    /\ outPc = "recv"
    /\ response.type = "delta"
    /\ response.item_id = <<"a1">>
    /\ last_assistant_item = <<"a1">>
    /\ Cardinality(CallerLog("media")) = 2
    /\ response_start_timestamp_twilio = <<1000>>
    /\ latest_media_timestamp = 1350

\* C6: a speech_started event processed while there is no current utterance
\* sends nothing on either leg, changes neither the mark queue nor the
\* utterance state, and leaves the outbound pump ready for the next event.
C6_BargeInWithoutUtteranceIsNoOp ==
    [][SpeechStartedStep /\ last_assistant_item = <<>>
       => /\ toModel' = toModel
          /\ toCaller' = toCaller
          /\ mark_queue' = mark_queue
          /\ last_assistant_item' = <<>>
          /\ response_start_timestamp_twilio'
               = response_start_timestamp_twilio
          /\ outPc' = "recv"
    ]_vars

\* speech_started was processed with no current utterance while a mark was
\* pending, and the outbound pump is ready for the next event.
C6_Witness ==
    /\ last_assistant_item = <<>>
    /\ Truncates = {}
    /\ CallerLog("clear") = {}
    /\ mark_queue # <<>>
    /\ response.type = "speech_started"
    /\ outPc = "recv"

\* C7: while the caller is connected every audio delta taken from the model
\* appends exactly one media frame with that delta's audio bytes to what the
\* caller has been sent; messages already sent are never removed or
\* reordered, and a media frame is sent for nothing but a delta.
C7_FramesFollowDeltas ==
    [][/\ (AudioDeltaStep /\ callerOpen)
          => /\ Len(toCaller') = Len(toCaller) + 1
             /\ Last(toCaller').event = "media"
             /\ B64Decode(Last(toCaller').payload) = B64Decode(response'.delta)
       /\ toCaller' # toCaller
          => /\ Len(toCaller') = Len(toCaller) + 1
             /\ \A i \in DOMAIN toCaller : toCaller'[i] = toCaller[i]
             /\ Last(toCaller').event = "media" => AudioDeltaStep
    ]_vars

\* Three deltas with the bytes A, B, A have reached the caller in that order.
C7_Witness ==
    /\ Cardinality(CallerLog("media")) = 3
    /\ nEvents = 3
    /\ \E i, j, k \in DOMAIN toCaller :
          /\ i < j /\ j < k
          /\ toCaller[i].event = "media" /\ toCaller[i].payload = "QQ=="
          /\ toCaller[j].event = "media" /\ toCaller[j].payload = "Qg=="
          /\ toCaller[k].event = "media" /\ toCaller[k].payload = "QQ=="

\* C8: once the stream has started, with the caller connected, the media
\* frame of a delta is followed at once by one mark request, and one mark is
\* then appended to the mark queue: for every delta, also the second and
\* later ones of an utterance.
C8_OneFrameOneMarkPerDelta ==
    [][/\ (AudioDeltaStep /\ callerOpen)
          => /\ Len(toCaller') = Len(toCaller) + 1
             /\ Last(toCaller').event = "media"
             /\ outPc' = "media_sent"
       /\ (outPc = "media_sent" /\ outPc' # outPc /\ callerOpen
           /\ stream_sid # <<>>)
          => /\ Last(toCaller).event = "media"
             /\ Len(toCaller') = Len(toCaller) + 1
             /\ Last(toCaller').event = "mark"
             /\ outPc' = "mark_sent"
       /\ (outPc = "mark_sent" /\ outPc' # outPc /\ callerOpen)
          => /\ Last(toCaller).event = "mark"
             /\ mark_queue' = Append(mark_queue, "responsePart")
             /\ toCaller' = toCaller
             /\ outPc' = "recv"
    ]_vars

\* Two deltas of the same utterance after start: media, mark, media, mark
\* and two marks pending.
C8_Witness ==
    /\ stream_sid # <<>>
    /\ Len(toCaller) = 4
    /\ toCaller[1].event = "media" /\ toCaller[2].event = "mark"
    /\ toCaller[3].event = "media" /\ toCaller[4].event = "mark"
    /\ last_assistant_item = <<"a1">>
    /\ Len(mark_queue) = 2
    /\ outPc = "recv"
    /\ nEvents = 3

\* C9: a message that fails to decode, on either leg, leaves the pump that
\* took it ready for the next message.
C9_MalformedIsDropped ==
    [][/\ (InRecv /\ data'.type \in {"nonjson", "media_no_timestamp"})
          => inPc' = "recv"
       /\ (OutRecv /\ (\/ response'.type = "nonjson"
                       \/ (response'.type = "delta"
                           /\ response'.delta = "QQ=")))
          => outPc' = "recv"
    ]_vars

\* C10: once the caller has gone while the model connection is open, the
\* model connection gets closed and the outbound pump returns.
C10_CallerCloseClosesModel ==
    (~callerOpen /\ modelState = "OPEN")
        ~> (modelState = "CLOSED" /\ outPc = "done")

\* C11: once the model connection has closed while the caller is connected,
\* the caller connection gets closed and the inbound pump returns.
C11_ModelCloseClosesCaller ==
    (modelState = "CLOSED" /\ callerOpen)
        ~> (~callerOpen /\ inPc = "done")

\* C12: a stop event taken from the caller ends the inbound pump, and no
\* caller message is taken after a stop.
C12_StopEndsInboundPump ==
    [][/\ (InRecv /\ data'.type = "stop") => inPc' # "recv"
       /\ data.type = "stop" => ~InRecv
    ]_vars

\* The session has closed: a leg is disconnected or a pump has returned.
SessionClosed ==
    \/ ~callerOpen
    \/ modelState # "OPEN"
    \/ inPc = "done"
    \/ outPc = "done"

\* C13: once the session has closed, a message taken from either leg
\* changes none of stream_sid, the caller clock, the utterance and the mark
\* queue, and sends nothing on either leg.
C13_ClosedIsAbsorbing ==
    [][SessionClosed /\ (InRecv \/ OutRecv)
       => UNCHANGED <<shared, toCaller, toModel>>
    ]_vars

\* The step in which the inbound pump takes a media frame.
MediaStep == InRecv /\ data'.type = "media"

IsAudioAppend(m) == m.type = "input_audio_buffer.append"

\* C14: a media frame taken while the model connection is OPEN appends one
\* input_audio_buffer.append with the frame's payload to what the model has
\* been sent; a frame taken while it is not OPEN sends nothing and is kept
\* nowhere; an append is sent for nothing but the frame being taken, and
\* what has been sent is never removed or reordered.
C14_MediaForwardedOnlyWhileOpen ==
    [][/\ (MediaStep /\ modelState = "OPEN")
          => toModel' = Append(toModel,
                               [type |-> "input_audio_buffer.append",
                                audio |-> data'.payload])
       /\ (MediaStep /\ modelState # "OPEN")
          => /\ toModel' = toModel
             /\ UNCHANGED shared
             /\ inPc' = "recv"
       /\ toModel' # toModel
          => /\ Len(toModel') = Len(toModel) + 1
             /\ \A i \in DOMAIN toModel : toModel'[i] = toModel[i]
             /\ IsAudioAppend(Last(toModel'))
                  => /\ MediaStep
                     /\ modelState = "OPEN"
                     /\ Last(toModel').audio = data'.payload
    ]_vars

\* The frames 1000 and 1350 were forwarded in that order, then the model
\* connection left OPEN and a third frame was taken and dropped.
C14_Witness ==
    /\ nEvents = 3
    /\ data.type = "media"
    /\ modelState # "OPEN"
    /\ inPc = "recv"
    /\ toModel = <<[type |-> "session.update"],
                   [type |-> "input_audio_buffer.append", audio |-> "cHE="],
                   [type |-> "input_audio_buffer.append", audio |-> "cHI="]>>

\* C15: a step of one call (a message, a malformed message, a transport
\* failure) leaves every other call's stream_sid, caller clock, utterance,
\* mark queue, model connection and pump positions unchanged.
C15_SessionsIndependent ==
    [][\A s \in Sessions :
          SessStep(s) => \A t \in Sessions \ {s} : sess'[t] = sess[t]
    ]_vars

\* Both pumps of call1 have returned before its stream started, while call2
\* streams on with an utterance and a pending mark.
C15_Witness ==
    /\ sess["call1"].inPc = "done"
    /\ sess["call1"].outPc = "done"
    /\ sess["call1"].stream_sid = <<>>
    /\ sess["call2"].inPc = "recv"
    /\ sess["call2"].outPc = "recv"
    /\ sess["call2"].modelState = "OPEN"
    /\ sess["call2"].stream_sid # <<>>
    /\ sess["call2"].last_assistant_item = <<"a1">>
    /\ sess["call2"].latest_media_timestamp = 1350
    /\ Len(sess["call2"].mark_queue) = 1

\* C16: a model event of another type ("error", "response.done") sends
\* nothing on either leg, changes no session state and leaves the outbound
\* pump ready for the next event.
C16_OtherEventsIgnored ==
    [][OutRecv /\ response'.type \in {"error", "response.done"}
       => /\ UNCHANGED <<shared, toCaller, toModel>>
          /\ outPc' = "recv"
    ]_vars

\* An "error" event was taken in the middle of an utterance with a mark
\* pending, and the pump is ready for the next event.
C16_Witness ==
    /\ response.type = "error"
    /\ outPc = "recv"
    /\ last_assistant_item = <<"a1">>
    /\ mark_queue # <<>>
    /\ modelState = "OPEN"

\* C17: the utterance's start timestamp is set exactly when the current item
\* is set.
C17_StartSetIffItemSet ==
    (response_start_timestamp_twilio = <<>>) <=> (last_assistant_item = <<>>)

\* Item a1 was started and cleared by a barge-in, then item a2 started at
\* clock 1350.
C17_Witness ==
    /\ Truncates # {}
    /\ CallerLog("clear") # {}
    /\ last_assistant_item = <<"a2">>
    /\ response_start_timestamp_twilio = <<1350>>

\* A step of the inbound pump.
InboundStep == InRecv \/ InDisconnected \/ InCloseDone

\* C18: the caller clock changes only in a step of the inbound pump that
\* takes a message; the current item and the start timestamp change only in
\* the outbound pump's steps after a media frame or a clear has been sent;
\* no step of the inbound pump changes them.
C18_SingleWriters ==
    [][/\ latest_media_timestamp' # latest_media_timestamp => InRecv
       /\ <<last_assistant_item, response_start_timestamp_twilio>>'
            # <<last_assistant_item, response_start_timestamp_twilio>>
          => OutAfterMedia \/ OutAfterClear
       /\ InboundStep
          => UNCHANGED <<last_assistant_item, response_start_timestamp_twilio>>
    ]_vars

\* A start event was taken during utterance a1 (started at 1000): the clock
\* is back at 0 and the utterance is as it was.
C18_Witness ==
    /\ data.type = "start"
    /\ inPc = "recv"
    /\ latest_media_timestamp = 0
    /\ last_assistant_item = <<"a1">>
    /\ response_start_timestamp_twilio = <<1000>>

\* C19 as stated: the caller clock decreases only when a media frame carries
\* a timestamp below the clock (start, media and mark events otherwise never
\* lower it).
C19_ClockNeverDecreases ==
    [][latest_media_timestamp' < latest_media_timestamp
       => /\ MediaStep
          /\ data'.timestamp < latest_media_timestamp
    ]_vars

\* C19 amended: the caller clock decreases only when a media frame carries a
\* timestamp below the clock or when a start event is taken, which sets it
\* to 0; a mark event leaves it unchanged.
C19_ClockDecreasesOnlyOnStart ==
    [][/\ latest_media_timestamp' < latest_media_timestamp
          => /\ InRecv
             /\ \/ data'.type = "start"
                \/ /\ data'.type = "media"
                   /\ data'.timestamp < latest_media_timestamp
       /\ (InRecv /\ data'.type = "start") => latest_media_timestamp' = 0
       /\ (InRecv /\ data'.type = "mark")
          => latest_media_timestamp' = latest_media_timestamp
    ]_vars

\* The frames 1000 and 1350 were taken in that order, then a start event set
\* the clock back to 0.
C19_Witness ==
    /\ data.type = "start"
    /\ latest_media_timestamp = 0
    /\ nEvents = 3
    /\ toModel = <<[type |-> "session.update"],
                   [type |-> "input_audio_buffer.append", audio |-> "cHE="],
                   [type |-> "input_audio_buffer.append", audio |-> "cHI="]>>

\* C20: a mark event taken from the caller removes the oldest pending mark
\* when there is one and leaves an empty queue empty; either way the inbound
\* pump is ready for the next message.
C20_MarkAckPopsOldest ==
    [][InRecv /\ data'.type = "mark"
       => /\ mark_queue' = IF mark_queue # <<>> THEN Tail(mark_queue)
                                                ELSE <<>>
          /\ inPc' = "recv"
    ]_vars

\* One mark was requested and acknowledged, and a further acknowledgment
\* found the queue empty.
C20_Witness ==
    /\ data.type = "mark"
    /\ inPc = "recv"
    /\ Cardinality(CallerLog("mark")) = 1
    /\ mark_queue = <<>>
    /\ nEvents = 4

\* C21: a start event taken from the caller binds stream_sid to its
\* streamSid, sets the caller clock to 0 and leaves no current utterance:
\* the current item and the start timestamp are unset.
C21_StartResetsUtterance ==
    [][InRecv /\ data'.type = "start"
       => /\ stream_sid' = <<data'.streamSid>>
          /\ latest_media_timestamp' = 0
          /\ last_assistant_item' = <<>>
          /\ response_start_timestamp_twilio' = <<>>
    ]_vars

\* C22: every message sent to the caller carries a stream_sid that is set.
C22_CallerMessagesCarryStreamSid ==
    \A i \in DOMAIN toCaller : toCaller[i].streamSid # <<>>

\* C23: while the caller is connected and has only answered mark requests
\* sent to it, the mark queue is no longer than the mark requests sent minus
\* the mark events taken.
C23_QueueWithinUnacked ==
    (markAcks.genuine /\ callerOpen)
        => Len(mark_queue) <= MarksSent - markAcks.count

\* C24: a speech_started event taken right after another speech_started
\* event, or while the clear of a barge-in is the last message the connected
\* caller was sent (no delta forwarded since), sends nothing on either leg;
\* a truncate is sent only for the current item, and a clear is sent only
\* right after the truncate of the same speech_started event.
C24_OneTruncatePerUtterance ==
    [][/\ (SpeechStartedStep
           /\ \/ response.type = "speech_started"
              \/ /\ callerOpen
                 /\ toCaller # <<>>
                 /\ Last(toCaller).event = "clear")
          => /\ toModel' = toModel
             /\ toCaller' = toCaller
             /\ outPc' = "recv"
       /\ (toModel' # toModel /\ IsTruncate(Last(toModel')))
          => /\ SpeechStartedStep
             /\ Last(toModel').item_id = last_assistant_item
             /\ last_assistant_item # <<>>
       /\ (toCaller' # toCaller /\ Last(toCaller').event = "clear")
          => /\ outPc = "truncate_sent"
             /\ response.type = "speech_started"
             /\ \E i \in Truncates :
                   toModel[i].item_id = last_assistant_item
    ]_vars

\* A barge-in on utterance a1 sent one truncate and one clear, and a second
\* speech_started event was then taken and sent nothing.
C24_Witness ==
    /\ nEvents = 4
    /\ data.type = "start"
    /\ response.type = "speech_started"
    /\ outPc = "recv"
    /\ Cardinality(Truncates) = 1
    /\ Cardinality(CallerLog("clear")) = 1
    /\ Cardinality(CallerLog("media")) = 1
    /\ Last(toCaller).event = "clear"
    /\ last_assistant_item = <<>>
    /\ mark_queue = <<>>

\* C25: once the caller has gone and the model connection is closed, both
\* pumps return and the handler returns.
C25_BothLegsGoneTerminates ==
    (~callerOpen /\ modelState = "CLOSED")
        ~> (inPc = "done" /\ outPc = "done" /\ handlerPc = "returned")

\* The handler has returned after the inbound pump, whose last message was a
\* media frame, left on the caller's disconnect and the outbound pump, whose
\* last message was an "error" event, left on the closed model connection.
C25_Witness ==
    /\ handlerPc = "returned"
    /\ inPc = "done"
    /\ outPc = "done"
    /\ ~callerOpen
    /\ modelState = "CLOSED"
    /\ data.type = "media"
    /\ response.type = "error"

\* The slots of the doctors that have the requested subspecialty and accept
\* the insurance, within the horizon of the urgency: <<doctor, datetime>>.
QualifyingSlots(args) ==
    {<<args.doctors[j].name, SlotDt(i, Hour(t))>> :
        <<j, i, t>> \in
            {<<j, i, t>> \in (DOMAIN args.doctors)
                             \X (0..(Horizon(args.urgency) - 1))
                             \X {"09:00", "10:00", "14:00"} :
                /\ args.subspecialty_code \in args.doctors[j].subspecialties
                /\ \/ args.insurance = ""
                   \/ args.insurance = "uhc"
                      /\ "uhc" \in args.doctors[j].insurances
                   \/ args.insurance = " Aetna "
                      /\ args.doctors[j].insurances \cap {"aetna", "Aetna"} # {}
                /\ Weekdays[((args.startWeekday + i) % 7) + 1]
                     \in DOMAIN args.doctors[j].schedule
                /\ t \in args.doctors[j].schedule[
                            Weekdays[((args.startWeekday + i) % 7) + 1]]}}

\* C26: the result of pick_doctor_advanced is a qualifying slot within the
\* horizon with the earliest date and time of all of them (slots with equal
\* date and time match the preferred days alike), and "No Doctor Available"
\* when there is none.
C26_PicksEarliestSlot ==
    pick.result # <<>>
    => LET args == pick.args[1]
           res  == pick.result[1]
           Q    == QualifyingSlots(args)
       IN  IF Q = {}
           THEN res.doctor_name = "No Doctor Available"
           ELSE /\ <<res.doctor_name, BestDt(res)>> \in Q
                /\ \A q \in Q : BestDt(res) <= q[2]

\* C27: a call of TriageAgent.update changes no slot that holds a non-empty
\* value.
C27_FilledSlotsKept ==
    [][\A k \in SlotKeySet :
          (agent.slots[k] # <<>> /\ agent.slots[k] # <<"">>)
              => agent'.slots[k] = agent.slots[k]
    ]_vars

====
